---- MODULE Spec2Model ----
(***************************************************************************)
(* Model of the MongoDB repository of Microkubes/backends (mongodb.go,     *)
(* helper.go): the CRUD operations of MongoSession, the identity           *)
(* normalisation helpers and the filter / pattern translation.             *)
(*                                                                         *)
(* Strings are sequences of one-character strings.  Every value a document *)
(* or a filter can hold is a tagged record [t, v]:                         *)
(*   t = "str"   v = the characters            (a Go string)               *)
(*   t = "oid"   v = 12 bytes                  (bson.ObjectId)             *)
(*   t = "oids"  v = a sequence of 12-byte ids ([]bson.ObjectId)           *)
(*   t = "pat"   v = the characters of p       (map[string]string          *)
(*                                              {"$pattern": p})           *)
(* A document, a filter and a payload are functions from field names to    *)
(* such values.                                                            *)
(***************************************************************************)
EXTENDS Integers, Sequences, FiniteSets, TLC

VARIABLES
    store,      \* the collection: documents in natural (insertion) order
    nextId,     \* counter of the driver's ObjectId generator
    customID,   \* repoDef.IsCustomID()
    before,     \* the collection as it was when the call in `last` began
    last,       \* the Repository call that just returned: inputs, error, result
    pc,         \* per caller: position inside the call in progress
    held,       \* per caller: the session copies the call holds (a stack)
    open,       \* the session copies that are open
    base,       \* the shared base session: [closed, mode]
    pattern,    \* input of toMongoPattern
    subject,    \* a string the translated pattern is matched against
    regex       \* the translated pattern, once computed

vars == <<store, before, nextId, customID, last, pc, held, open, base,
          pattern, subject, regex>>

----------------------------------------------------------------------------
(* Bounds of the model *)

MaxRecords == 2     \* documents the collection may hold
MaxInserts == 2     \* ObjectIds the generator hands out
MaxPatLen == 3      \* length of a wildcard pattern
MaxStrLen == 3      \* length of a string matched against a pattern
NumCallers == 2     \* callers using one Repository at the same time
MaxIndexes == 2     \* indexes a repository definition declares

----------------------------------------------------------------------------
(* Strings *)

Str(s) == [t |-> "str", v |-> s]
Oid(b) == [t |-> "oid", v |-> b]
Oids(l) == [t |-> "oids", v |-> l]
Pat(p) == [t |-> "pat", v |-> p]

HasPrefix(s, p) == Len(s) >= Len(p) /\ SubSeq(s, 1, Len(p)) = p
HasSuffix(s, p) == Len(s) >= Len(p) /\ SubSeq(s, Len(s) - Len(p) + 1, Len(s)) = p

Contains(s, c) == \E i \in 1..Len(s) : s[i] = c

\* strings.Split(s, ","): the pieces between the commas, empty ones included
RECURSIVE SplitFrom(_, _, _)
SplitFrom(s, i, cur) ==
    IF i > Len(s) THEN <<cur>>
    ELSE IF s[i] = "," THEN <<cur>> \o SplitFrom(s, i + 1, <<>>)
    ELSE SplitFrom(s, i + 1, Append(cur, s[i]))

Split(s) == SplitFrom(s, 1, <<>>)

----------------------------------------------------------------------------
(* bson.ObjectId: 12 bytes; Hex / ObjectIdHex / IsObjectIdHex / NewObjectId *)

IdBytes == 12

HexDigits == <<"0","1","2","3","4","5","6","7","8","9","a","b","c","d","e","f">>
UpperDigits == <<"0","1","2","3","4","5","6","7","8","9","A","B","C","D","E","F">>

IsHexDigit(c) == \E i \in 1..16 : HexDigits[i] = c \/ UpperDigits[i] = c

HexVal(c) == (CHOOSE i \in 1..16 : HexDigits[i] = c \/ UpperDigits[i] = c) - 1

\* ObjectId.Hex(): two lowercase digits per byte
Hex(b) == [i \in 1..(2 * Len(b)) |->
             IF i % 2 = 1 THEN HexDigits[(b[(i + 1) \div 2] \div 16) + 1]
                          ELSE HexDigits[(b[i \div 2] % 16) + 1]]

\* bson.IsObjectIdHex(s): 24 characters that decode as hexadecimal
IsObjectIdHex(s) == Len(s) = 2 * IdBytes /\ \A i \in 1..Len(s) : IsHexDigit(s[i])

\* bson.ObjectIdHex(s): the bytes the digits spell
ObjectIdHex(s) == [i \in 1..(Len(s) \div 2) |->
                     16 * HexVal(s[2 * i - 1]) + HexVal(s[2 * i])]

\* bson.NewObjectId(): timestamp(4) machine(3) pid(2) counter(3, big endian)
NewObjectId(n) == <<94, 168, 0, 1, 17, 34, 51, 68, 85,
                    (n \div 65536) % 256, (n \div 256) % 256, n % 256>>

----------------------------------------------------------------------------
(* Maps *)

Without(f, k) == [x \in DOMAIN f \ {k} |-> f[x]]
With(f, k, val) == [x \in DOMAIN f \cup {k} |-> IF x = k THEN val ELSE f[x]]
Has(f, k) == k \in DOMAIN f
SameVal(a, b) == a.t = b.t /\ a.v = b.v

NoError == "nil"

----------------------------------------------------------------------------
(* helper.go: identity normalisation of a filter (mutates the map) *)

\* stringToObjectID: "id" is removed first; a malformed id is an
\* InvalidInput error, a well-formed one is stored under "_id" as ObjectId.
stringToObjectID(object) ==
    IF ~Has(object, "id") THEN [err |-> NoError, out |-> object]
    ELSE IF ~IsObjectIdHex(object["id"].v)
         THEN [err |-> "InvalidInput", out |-> Without(object, "id")]
         ELSE [err |-> NoError,
               out |-> With(Without(object, "id"), "_id",
                            Oid(ObjectIdHex(object["id"].v)))]

\* a loop that skips a malformed id instead of failing on it
RECURSIVE sliceLoop_SkipsMalformed(_, _)
sliceLoop_SkipsMalformed(ids, acc) ==
    IF ids = <<>> THEN [ok |-> TRUE, ids |-> acc]
    ELSE IF ~IsObjectIdHex(Head(ids)) THEN sliceLoop_SkipsMalformed(Tail(ids), acc)
    ELSE sliceLoop_SkipsMalformed(Tail(ids), Append(acc, ObjectIdHex(Head(ids))))

\* the loop of sliceToObjectID: the ids converted so far, or the failure
RECURSIVE sliceLoop(_, _)
sliceLoop(ids, acc) ==
    IF ids = <<>> THEN [ok |-> TRUE, ids |-> acc]
    ELSE IF ~IsObjectIdHex(Head(ids)) THEN [ok |-> FALSE, ids |-> acc]
    ELSE sliceLoop(Tail(ids), Append(acc, ObjectIdHex(Head(ids))))

\* sliceToObjectID: a comma-separated id list becomes a []ObjectId under "_id"
sliceToObjectID(object) ==
    IF ~Has(object, "id") THEN [err |-> NoError, out |-> object]
    ELSE LET r == sliceLoop(Split(object["id"].v), <<>>)
         IN  IF ~r.ok
             THEN [err |-> "InvalidInput", out |-> Without(object, "id")]
             ELSE [err |-> NoError,
                   out |-> With(Without(object, "id"), "_id", Oids(r.ids))]

----------------------------------------------------------------------------
(* mongodb.go: toMongoPattern, and the regular expressions it produces *)

Nul == "NUL"      \* the rune '\000'

\* the loop of toMongoPattern over the runes of the pattern
RECURSIVE patternLoop(_, _, _, _)
patternLoop(p, i, prv, acc) ==
    IF i > Len(p)
    THEN IF prv = "%" THEN acc \o <<".", "*">> ELSE acc
    ELSE LET r == p[i]
         IN  IF r = "%"
             THEN IF prv = "%"
                  THEN patternLoop(p, i + 1, Nul, Append(acc, "%"))
                  ELSE patternLoop(p, i + 1, r, acc)
             ELSE patternLoop(p, i + 1, r,
                      (IF prv = "%" THEN acc \o <<".", "*">> ELSE acc)
                      \o (IF r # Nul THEN <<r>> ELSE <<>>))

toMongoPattern(p) ==
    LET m1 == patternLoop(p, 1, Nul, <<>>)
        m2 == IF ~HasPrefix(m1, <<".", "*">>) THEN <<"^">> \o m1 ELSE m1
    IN  IF ~HasSuffix(m2, <<".", "*">>) THEN m2 \o <<"$">> ELSE m2

\* The server's regular-expression search, for the expressions toMongoPattern
\* builds from patterns over PatternAlphabet: "^" first and "$" last anchor,
\* "." is any character, "x*" is zero or more x, anything else is itself.
AtomMatch(a, c) == a = "." \/ a = c

RECURSIVE MatchHere(_, _, _, _, _)
MatchHere(body, i, s, j, toEnd) ==
    IF i > Len(body) THEN (toEnd => j > Len(s))
    ELSE IF i < Len(body) /\ body[i + 1] = "*"
    THEN \E k \in j..(Len(s) + 1) :
            /\ \A x \in j..(k - 1) : AtomMatch(body[i], s[x])
            /\ MatchHere(body, i + 2, s, k, toEnd)
    ELSE /\ j <= Len(s)
         /\ AtomMatch(body[i], s[j])
         /\ MatchHere(body, i + 1, s, j + 1, toEnd)

RegexMatch(re, s) ==
    LET fromStart == re # <<>> /\ Head(re) = "^"
        r1 == IF fromStart THEN Tail(re) ELSE re
        toEnd == r1 # <<>> /\ r1[Len(r1)] = "$"
        body == IF toEnd THEN SubSeq(r1, 1, Len(r1) - 1) ELSE r1
    IN  IF fromStart THEN MatchHere(body, 1, s, 1, toEnd)
        ELSE \E j \in 1..(Len(s) + 1) : MatchHere(body, 1, s, j, toEnd)

----------------------------------------------------------------------------
(* mongodb.go: toMongoFilter, and how the server selects documents *)

\* one key of toMongoFilter: the native condition for a filter value
toMongoCond(val) ==
    IF val.t = "pat" THEN [op |-> "regex", arg |-> toMongoPattern(val.v)]
    ELSE IF val.t = "str" /\ Len(Split(val.v)) > 1
    THEN [op |-> "in", arg |-> {Str(Split(val.v)[i]) : i \in 1..Len(Split(val.v))}]
    ELSE IF val.t = "oids" /\ Len(val.v) > 1
    THEN [op |-> "in", arg |-> {Oid(val.v[i]) : i \in 1..Len(val.v)}]
    ELSE [op |-> "eq", arg |-> val]

\* toMongoFilter: a descriptor without "$pattern" is a translation error
toMongoFilter(filter) ==
    IF \E k \in DOMAIN filter : filter[k].t = "spec"
    THEN [err |-> "unknown filter specification", q |-> <<>>]
    ELSE [err |-> NoError, q |-> [k \in DOMAIN filter |-> toMongoCond(filter[k])]]

\* A Filter handed to the driver as it is: every value is compared literally;
\* a {"$pattern": p} value reaches the server as an operator it does not
\* know, which the server rejects.
rawQuery(filter) ==
    IF \E k \in DOMAIN filter : filter[k].t = "pat"
    THEN [err |-> "QueryError", q |-> <<>>]
    ELSE [err |-> NoError, q |-> [k \in DOMAIN filter |-> [op |-> "eq", arg |-> filter[k]]]]

CondHolds(doc, k, c) ==
    /\ Has(doc, k)
    /\ CASE c.op = "eq" -> SameVal(doc[k], c.arg)
         [] c.op = "in" -> \E a \in c.arg : SameVal(doc[k], a)
         [] c.op = "regex" -> doc[k].t = "str" /\ RegexMatch(c.arg, doc[k].v)

Matches(doc, q) == \A k \in DOMAIN q : CondHolds(doc, k, q[k])

\* positions of the matching documents, in natural order
RECURSIVE MatchingFrom(_, _, _)
MatchingFrom(docs, q, i) ==
    IF i > Len(docs) THEN <<>>
    ELSE (IF Matches(docs[i], q) THEN <<i>> ELSE <<>>) \o MatchingFrom(docs, q, i + 1)

Matching(docs, q) == MatchingFrom(docs, q, 1)

----------------------------------------------------------------------------
(* helper.go: MapToInterface, a JSON round trip into the caller's value *)

StructFields == {"id", "name", "tag"}   \* a record type with string fields

\* json.Marshal of one value: an ObjectId is written as its hex string
ToJSON(val) == IF val.t = "oid" THEN Str(Hex(val.v)) ELSE val

\* a fresh destination of the hinted kind
NewDest(kind) ==
    IF kind = "map" THEN [kind |-> "map", val |-> <<>>]
    ELSE [kind |-> "struct", val |-> [k \in StructFields |-> Str(<<>>)]]

\* MapToInterface(object, result): json.Unmarshal sets the keys the JSON has
\* and leaves what else the destination held; a struct takes only its fields.
MapToInterface(object, dest) ==
    IF dest.kind = "map"
    THEN [k \in DOMAIN dest.val \cup DOMAIN object |->
             IF k \in DOMAIN object THEN ToJSON(object[k]) ELSE dest.val[k]]
    ELSE [k \in StructFields |->
             IF k \in DOMAIN object /\ ToJSON(object[k]).t = "str"
             THEN ToJSON(object[k]) ELSE dest.val[k]]

----------------------------------------------------------------------------
(* The collection: unique sparse index on "name" (PrepareDB) *)

IndexField == "name"

\* does doc collide on the unique index with a document other than skip
IsDup(docs, doc, skip) ==
    /\ Has(doc, IndexField)
    /\ \E j \in 1..Len(docs) :
          /\ j # skip
          /\ Has(docs[j], IndexField)
          /\ SameVal(docs[j][IndexField], doc[IndexField])

\* a removal that takes the record after the one it was given
RemoveAt_OffByOne(docs, i) == SubSeq(docs, 1, i) \o SubSeq(docs, i + 2, Len(docs))

RemoveAt(docs, i) == SubSeq(docs, 1, i - 1) \o SubSeq(docs, i + 1, Len(docs))

RECURSIVE KeepNot(_, _, _)
KeepNot(docs, q, i) ==
    IF i > Len(docs) THEN <<>>
    ELSE (IF Matches(docs[i], q) THEN <<>> ELSE <<docs[i]>>) \o KeepNot(docs, q, i + 1)

\* the non-custom identity step of GetOne, Save, DeleteOne, DeleteAll
Normalize(filter) ==
    IF ~customID THEN stringToObjectID(filter)
    ELSE [err |-> NoError, out |-> filter]

----------------------------------------------------------------------------
(* mongodb.go: GetOne *)

GetOneRes(docs, filter, dest) ==
    LET norm == Normalize(filter)
        rq == rawQuery(norm.out)
        m == Matching(docs, rq.q)
        record == docs[m[1]]
        hex == Str(Hex(record["_id"].v))
        out == IF customID THEN With(record, "_id", hex)
                           ELSE With(record, "id", hex)
    IN  IF norm.err # NoError
        THEN [err |-> norm.err, out |-> norm.out, res |-> <<>>]
        ELSE IF rq.err # NoError
        THEN [err |-> rq.err, out |-> norm.out, res |-> <<>>]
        ELSE IF m = <<>>
        THEN [err |-> "mgo.ErrNotFound", out |-> norm.out, res |-> <<>>]
        ELSE [err |-> NoError, out |-> norm.out,
              res |-> <<MapToInterface(out, dest)>>]

----------------------------------------------------------------------------
(* mongodb.go: GetAll *)

\* the characters of the model in code-point order, for the server's sort
AsciiOrder == <<"%", ",", ".", "0","1","2","3","4","5","6","7","8","9",
                "A","B","C","D","E","F", "a","b","c","d","e","f", "u", "x">>

CharCode(c) == CHOOSE i \in 1..Len(AsciiOrder) : AsciiOrder[i] = c

RECURSIVE StrLess(_, _)
StrLess(a, b) ==
    IF b = <<>> THEN FALSE
    ELSE IF a = <<>> THEN TRUE
    ELSE IF Head(a) # Head(b) THEN CharCode(Head(a)) < CharCode(Head(b))
    ELSE StrLess(Tail(a), Tail(b))

\* sort order of two documents on a field: a missing field sorts first
DocLess(a, b, field) ==
    IF ~Has(b, field) THEN FALSE
    ELSE IF ~Has(a, field) THEN TRUE
    ELSE StrLess(a[field].v, b[field].v)

RECURSIVE InsertSorted(_, _, _, _)
InsertSorted(sorted, doc, field, desc) ==
    IF sorted = <<>> THEN <<doc>>
    ELSE IF (IF desc THEN DocLess(Head(sorted), doc, field)
                     ELSE DocLess(doc, Head(sorted), field))
    THEN <<doc>> \o sorted
    ELSE <<Head(sorted)>> \o InsertSorted(Tail(sorted), doc, field, desc)

\* query.Sort(order): documents equal on the field keep their natural order
RECURSIVE SortDocs(_, _, _)
SortDocs(docs, field, desc) ==
    IF docs = <<>> THEN <<>>
    ELSE InsertSorted(SortDocs(SubSeq(docs, 1, Len(docs) - 1), field, desc),
                      docs[Len(docs)], field, desc)

\* order, Skip(offset) and Limit(limit) of the query
Paged(docs, page) ==
    LET sorted == IF page.order # "" THEN SortDocs(docs, page.order, page.sorting = "desc")
                  ELSE docs
        skipped == IF page.offset # 0 THEN SubSeq(sorted, page.offset + 1, Len(sorted))
                   ELSE sorted
    IN  IF page.limit # 0 /\ page.limit < Len(skipped)
        THEN SubSeq(skipped, 1, page.limit) ELSE skipped

\* the callback of GetAll on one decoded element
GetAllItem(doc, kind) ==
    IF kind = "map"
    THEN IF Has(doc, "_id") /\ doc["_id"].t = "oid"
         THEN IF customID
              THEN With(doc, "_id", Str(Hex(doc["_id"].v)))
              ELSE Without(With(doc, "id", Str(Hex(doc["_id"].v))), "_id")
         ELSE doc
    ELSE [k \in StructFields |->
             IF Has(doc, k) /\ doc[k].t = "str" THEN doc[k] ELSE Str(<<>>)]

\* the identity step of GetAll: an id holding a comma is a list of ids
GetAllNormalize(filter) ==
    IF ~customID /\ Has(filter, "id")
    THEN IF Contains(filter["id"].v, ",") THEN sliceToObjectID(filter)
         ELSE stringToObjectID(filter)
    ELSE [err |-> NoError, out |-> filter]

GetAllRes(docs, filter, kind, page) ==
    LET norm == GetAllNormalize(filter)
        tq == toMongoFilter(norm.out)
        m == Matching(docs, tq.q)
        found == Paged([i \in 1..Len(m) |-> docs[m[i]]], page)
    IN  IF norm.err # NoError
        THEN [err |-> "InvalidInput", out |-> norm.out, res |-> <<>>]
        ELSE IF tq.err # NoError
        THEN [err |-> "InvalidInput", out |-> norm.out, res |-> <<>>]
        ELSE [err |-> NoError, out |-> norm.out,
              res |-> [i \in 1..Len(found) |-> GetAllItem(found[i], kind)]]

----------------------------------------------------------------------------
(* mongodb.go: Save *)

\* an insert that never strips the caller's public id
SaveInsertRes_KeepsId(docs, n, object) ==
    LET id == NewObjectId(n)
        payload == With(object, "_id", Oid(id))
        back == IF ~customID THEN With(payload, "id", Str(Hex(id))) ELSE payload
    IN  IF IsDup(docs, payload, 0)
        THEN [err |-> "AlreadyExists", res |-> <<>>, docs |-> docs]
        ELSE [err |-> NoError,
              res |-> <<MapToInterface(back, [kind |-> "map", val |-> back])>>,
              docs |-> Append(docs, payload)]

\* an insert that strips the caller's public id on every collection
SaveInsertRes_DropsId(docs, n, object) ==
    LET id == NewObjectId(n)
        payload == Without(With(object, "_id", Oid(id)), "id")
        back == IF ~customID THEN With(payload, "id", Str(Hex(id))) ELSE payload
    IN  IF IsDup(docs, payload, 0)
        THEN [err |-> "AlreadyExists", res |-> <<>>, docs |-> docs]
        ELSE [err |-> NoError,
              res |-> <<MapToInterface(back, [kind |-> "map", val |-> back])>>,
              docs |-> Append(docs, payload)]

\* Save(object, nil): n is the generator's counter
SaveInsertRes(docs, n, object) ==
    LET id == NewObjectId(n)
        withKey == With(object, "_id", Oid(id))
        payload == IF ~customID THEN Without(withKey, "id") ELSE withKey
        back == IF ~customID THEN With(payload, "id", Str(Hex(id))) ELSE payload
    IN  IF IsDup(docs, payload, 0)
        THEN [err |-> "AlreadyExists", res |-> <<>>, docs |-> docs]
        ELSE [err |-> NoError,
              res |-> <<MapToInterface(back, [kind |-> "map", val |-> back])>>,
              docs |-> Append(docs, payload)]

\* c.Update(filter, {"$set": payload}) on the first matching document
SetFields(doc, payload) ==
    [k \in DOMAIN doc \cup DOMAIN payload |->
        IF k \in DOMAIN payload THEN payload[k] ELSE doc[k]]

\* an update that leaves the internal key in the payload: the server refuses
\* to set _id, and the call fails where the key should have been ignored
SaveUpdateRes_SetsKey(docs, object, filter) ==
    LET norm == Normalize(filter)
        rq == rawQuery(norm.out)
        m == Matching(docs, rq.q)
        updated == SetFields(docs[m[1]], object)
        docs2 == [docs EXCEPT ![m[1]] = updated]
        got == GetOneRes(docs2, norm.out, [kind |-> "map", val |-> object])
    IN  IF norm.err # NoError
        THEN [err |-> "InvalidInput", out |-> norm.out, res |-> <<>>, docs |-> docs]
        ELSE IF rq.err # NoError
        THEN [err |-> rq.err, out |-> norm.out, res |-> <<>>, docs |-> docs]
        ELSE IF m = <<>>
        THEN [err |-> "NotFound", out |-> norm.out, res |-> <<>>, docs |-> docs]
        ELSE IF Has(object, "_id")
        THEN [err |-> "QueryError", out |-> norm.out, res |-> <<>>, docs |-> docs]
        ELSE IF IsDup(docs, updated, m[1])
        THEN [err |-> "AlreadyExists", out |-> norm.out, res |-> <<>>, docs |-> docs]
        ELSE [err |-> got.err, out |-> got.out, res |-> got.res, docs |-> docs2]

\* Save(object, filter) with a filter
SaveUpdateRes(docs, object, filter) ==
    LET norm == Normalize(filter)
        payload == Without(object, "_id")
        rq == rawQuery(norm.out)
        m == Matching(docs, rq.q)
        updated == SetFields(docs[m[1]], payload)
        docs2 == [docs EXCEPT ![m[1]] = updated]
        got == GetOneRes(docs2, norm.out, [kind |-> "map", val |-> payload])
    IN  IF norm.err # NoError
        THEN [err |-> "InvalidInput", out |-> norm.out, res |-> <<>>, docs |-> docs]
        ELSE IF rq.err # NoError
        THEN [err |-> rq.err, out |-> norm.out, res |-> <<>>, docs |-> docs]
        ELSE IF m = <<>>
        THEN [err |-> "NotFound", out |-> norm.out, res |-> <<>>, docs |-> docs]
        ELSE IF IsDup(docs, updated, m[1])
        THEN [err |-> "AlreadyExists", out |-> norm.out, res |-> <<>>, docs |-> docs]
        ELSE [err |-> got.err, out |-> got.out, res |-> got.res, docs |-> docs2]

----------------------------------------------------------------------------
(* mongodb.go: DeleteOne, DeleteAll *)

DeleteOneRes(docs, filter) ==
    LET norm == Normalize(filter)
        rq == rawQuery(norm.out)
        m == Matching(docs, rq.q)
    IN  IF norm.err # NoError
        THEN [err |-> "InvalidInput", out |-> norm.out, docs |-> docs]
        ELSE IF rq.err # NoError
        THEN [err |-> rq.err, out |-> norm.out, docs |-> docs]
        ELSE IF m = <<>>
        THEN [err |-> "NotFound", out |-> norm.out, docs |-> docs]
        ELSE [err |-> NoError, out |-> norm.out, docs |-> RemoveAt(docs, m[1])]

DeleteAllRes(docs, filter) ==
    LET norm == Normalize(filter)
        rq == rawQuery(norm.out)
    IN  IF norm.err # NoError
        THEN [err |-> "InvalidInput", out |-> norm.out, docs |-> docs]
        ELSE IF rq.err # NoError
        THEN [err |-> rq.err, out |-> norm.out, docs |-> docs]
        ELSE [err |-> NoError, out |-> norm.out, docs |-> KeepNot(docs, rq.q, 1)]

----------------------------------------------------------------------------
(* Inputs of the calls *)

NameVals == {<<"a">>, <<"b">>}
TagVals == {<<"x">>}
CallerId == <<"u">>                      \* an id the caller chose itself
KnownOids == {NewObjectId(n) : n \in 1..MaxInserts}
SomeOid == NewObjectId(1)

\* objects handed to Save: maps with at least one ordinary field; some carry
\* a public id of the caller's, some an internal key
Payloads ==
    {[name |-> Str(<<"a">>)], [name |-> Str(<<"b">>)], [tag |-> Str(<<"x">>)],
     [name |-> Str(<<"a">>), tag |-> Str(<<"x">>)],
     [name |-> Str(<<"b">>), tag |-> Str(<<"x">>)],
     [id |-> Str(CallerId), name |-> Str(<<"a">>)],
     [_id |-> Str(Hex(SomeOid)), name |-> Str(<<"b">>)],
     [id |-> Str(CallerId), _id |-> Str(Hex(SomeOid)), tag |-> Str(<<"x">>)]}

IdList == Hex(NewObjectId(1)) \o <<",">> \o Hex(NewObjectId(2))

Filters ==
    {<<>>}
    \cup {[name |-> Str(x)] : x \in NameVals}
    \cup {[name |-> Str(<<"a", ",", "b">>)], [name |-> Pat(<<"a", "%">>)],
          [name |-> [t |-> "spec", v |-> <<>>]]}
    \cup {[tag |-> Str(x)] : x \in TagVals}
    \cup {[id |-> Str(Hex(o))] : o \in KnownOids}
    \cup {[id |-> Str(CallerId)], [id |-> Str(IdList)]}
    \cup {[_id |-> Oid(o)] : o \in KnownOids}

Hints == {"map", "struct"}

NoPage == [order |-> "", sorting |-> "", limit |-> 0, offset |-> 0]

Pages ==
    {NoPage,
     [order |-> "name", sorting |-> "desc", limit |-> 0, offset |-> 0],
     [order |-> "name", sorting |-> "asc", limit |-> 1, offset |-> 1],
     [order |-> "", sorting |-> "", limit |-> 1, offset |-> 0]}

----------------------------------------------------------------------------
(* The Repository calls, one after another *)

\* the session MongoDBRepoBuilder stores in MongoSession.Session
BaseSession == [closed |-> FALSE, mode |-> "Monotonic"]

\* no pattern has been translated yet
NotTranslated == [re |-> <<>>, hit |-> FALSE, done |-> FALSE]

NoCall == [op |-> "none", filter |-> <<>>, out |-> <<>>, object |-> <<>>,
           hint |-> "map", page |-> NoPage, err |-> NoError, res |-> <<>>]

callVars == <<pc, held, open, base>>
patVars == <<pattern, subject, regex>>

\* a call is made when the caller holds no result; it leaves its record
Called(c) ==
    /\ last.op = "none"
    /\ last' = c
    /\ before' = store
    /\ UNCHANGED <<customID, callVars, patVars>>

GetOne ==
    \E f \in Filters, h \in Hints :
        LET r == GetOneRes(store, f, NewDest(h))
        IN  /\ Called([op |-> "GetOne", filter |-> f, out |-> r.out, object |-> <<>>,
                       hint |-> h, page |-> NoPage, err |-> r.err, res |-> r.res])
            /\ UNCHANGED <<store, nextId>>

GetAll ==
    \E f \in Filters, h \in Hints, pg \in Pages :
        LET r == GetAllRes(store, f, h, pg)
        IN  /\ Called([op |-> "GetAll", filter |-> f, out |-> r.out, object |-> <<>>,
                       hint |-> h, page |-> pg, err |-> r.err, res |-> r.res])
            /\ UNCHANGED <<store, nextId>>

SaveInsert ==
    \E o \in Payloads :
        /\ Len(store) < MaxRecords
        /\ nextId <= MaxInserts
        /\ LET r == SaveInsertRes(store, nextId, o)
           IN  /\ Called([op |-> "SaveInsert", filter |-> <<>>, out |-> <<>>,
                          object |-> o, hint |-> "map", page |-> NoPage,
                          err |-> r.err, res |-> r.res])
               /\ store' = r.docs
               /\ nextId' = nextId + 1

SaveUpdate ==
    \E o \in Payloads, f \in Filters :
        LET r == SaveUpdateRes(store, o, f)
        IN  /\ Called([op |-> "SaveUpdate", filter |-> f, out |-> r.out,
                       object |-> o, hint |-> "map", page |-> NoPage,
                       err |-> r.err, res |-> r.res])
            /\ store' = r.docs
            /\ UNCHANGED nextId

DeleteOne ==
    \E f \in Filters :
        LET r == DeleteOneRes(store, f)
        IN  /\ Called([op |-> "DeleteOne", filter |-> f, out |-> r.out, object |-> <<>>,
                       hint |-> "map", page |-> NoPage, err |-> r.err, res |-> <<>>])
            /\ store' = r.docs
            /\ UNCHANGED nextId

DeleteAll ==
    \E f \in Filters :
        LET r == DeleteAllRes(store, f)
        IN  /\ Called([op |-> "DeleteAll", filter |-> f, out |-> r.out, object |-> <<>>,
                       hint |-> "map", page |-> NoPage, err |-> r.err, res |-> <<>>])
            /\ store' = r.docs
            /\ UNCHANGED nextId

Init ==
    /\ store = <<>>
    /\ nextId = 1
    /\ customID \in BOOLEAN
    /\ last = NoCall
    /\ before = <<>>
    /\ pc = <<>>
    /\ held = <<>>
    /\ open = {}
    /\ base = BaseSession
    /\ pattern = <<>>
    /\ subject = <<>>
    /\ regex = NotTranslated

\* the caller takes the result; the next call may begin
Return ==
    /\ last.op # "none"
    /\ last' = NoCall
    /\ before' = store
    /\ UNCHANGED <<store, nextId, customID, callVars, patVars>>

Next ==
    \/ GetOne
    \/ GetAll
    \/ SaveInsert
    \/ SaveUpdate
    \/ DeleteOne
    \/ DeleteAll
    \/ Return

Spec == Init /\ [][Next]_vars

----------------------------------------------------------------------------
(* Concurrent callers: every operation copies the session on entry         *)
(* (GetCollection) and closes its copy when it returns (defer Close).      *)
(* The answer of the backend decides only which exit the call takes, so a  *)
(* round trip is a choice among the exits the code has.                    *)

Callers == 1..NumCallers

Ops == {"GetOne", "GetAll", "SaveInsert", "SaveUpdate", "DeleteOne", "DeleteAll"}

Idle(err) == [op |-> "none", at |-> "idle", err |-> err]

\* the id of the shared session; its copies are numbered from 1
BaseId == 0

\* Session.Copy(): a new session of its own, beside the ones that are open
Copy(sessions) == CHOOSE n \in 1..(2 * NumCallers) :
                     n \notin sessions /\ \A k \in 1..(n - 1) : k \in sessions

\* a Close that is never run
CloseSession_Leaks(sessions, h) == sessions

\* Session.Close() of session h
CloseSession(sessions, h) == sessions \ {h}

\* Close on the shared session would close it for every caller
CloseBase(b, h) == IF h = BaseId THEN [b EXCEPT !.closed = TRUE] ELSE b

\* the errors an operation can return from its round trip, by the code
Exits(op) ==
    CASE op = "SaveInsert" -> {NoError, "InvalidInput", "AlreadyExists", "transport"}
      [] op = "SaveUpdate" -> {"InvalidInput", "NotFound", "AlreadyExists", "transport"}
      [] op = "GetOne" -> {NoError, "mgo.ErrNotFound", "transport"}
                          \cup (IF customID THEN {} ELSE {"InvalidInput"})
      [] op = "GetAll" -> {NoError, "InvalidInput", "NotFound", "transport"}
      [] OTHER -> {NoError, "NotFound", "transport"}
                  \cup (IF customID THEN {} ELSE {"InvalidInput"})

dataVars == <<store, before, nextId, customID, last>>

\* entry of an operation: session, c := s.GetCollection()
Begin(p) ==
    /\ pc[p].at = "idle"
    /\ \E op \in Ops :
          pc' = [pc EXCEPT ![p] = [op |-> op, at |-> "body", err |-> NoError]]
    /\ held' = [held EXCEPT ![p] = <<Copy(open)>>]
    /\ open' = open \cup {Copy(open)}
    /\ UNCHANGED <<base, dataVars, patVars>>

\* the body of an operation up to its return statement
Body(p) ==
    /\ pc[p].at = "body"
    /\ \E e \in Exits(pc[p].op) :
          pc' = [pc EXCEPT ![p] = [op |-> pc[p].op, at |-> "return", err |-> e]]
    /\ UNCHANGED <<held, open, base, dataVars, patVars>>

\* Save with a filter, its update applied: s.GetOne(filter, object) begins
Refetch(p) ==
    /\ pc[p].at = "body"
    /\ pc[p].op = "SaveUpdate"
    /\ pc' = [pc EXCEPT ![p] = [op |-> "SaveUpdate", at |-> "getone", err |-> NoError]]
    /\ held' = [held EXCEPT ![p] = Append(held[p], Copy(open))]
    /\ open' = open \cup {Copy(open)}
    /\ UNCHANGED <<base, dataVars, patVars>>

\* the GetOne that Save called runs and returns: its deferred Close
RefetchReturn(p) ==
    /\ pc[p].at = "getone"
    /\ \E e \in Exits("GetOne") :
          pc' = [pc EXCEPT ![p] = [op |-> "SaveUpdate", at |-> "return", err |-> e]]
    /\ open' = CloseSession(open, held[p][Len(held[p])])
    /\ base' = CloseBase(base, held[p][Len(held[p])])
    /\ held' = [held EXCEPT ![p] = SubSeq(held[p], 1, Len(held[p]) - 1)]
    /\ UNCHANGED <<dataVars, patVars>>

\* the operation returns: its deferred session.Close()
Finish(p) ==
    /\ pc[p].at = "return"
    /\ pc' = [pc EXCEPT ![p] = Idle(pc[p].err)]
    /\ open' = CloseSession(open, held[p][1])
    /\ base' = CloseBase(base, held[p][1])
    /\ held' = [held EXCEPT ![p] = Tail(held[p])]
    /\ UNCHANGED <<dataVars, patVars>>

InitCallers ==
    /\ store = <<>>
    /\ before = <<>>
    /\ nextId = 1
    /\ customID \in BOOLEAN
    /\ last = NoCall
    /\ pc = [p \in Callers |-> Idle(NoError)]
    /\ held = [p \in Callers |-> <<>>]
    /\ open = {}
    /\ base = BaseSession
    /\ pattern = <<>>
    /\ subject = <<>>
    /\ regex = NotTranslated

NextCallers ==
    \E p \in Callers :
        \/ Begin(p)
        \/ Body(p)
        \/ Refetch(p)
        \/ RefetchReturn(p)
        \/ Finish(p)

SpecCallers == InitCallers /\ [][NextCallers]_vars

----------------------------------------------------------------------------
(* toMongoPattern as a function of its input: a pattern is translated and  *)
(* the server matches a string against the result.                         *)

PatternAlphabet == {"a", "b", "%", "."}
SubjectAlphabet == {"a", "b", "%"}

StringsOver(A, n) == UNION {[1..k -> A] : k \in 0..n}

Translate ==
    /\ ~regex.done
    /\ regex' = [re |-> toMongoPattern(pattern),
                 hit |-> RegexMatch(toMongoPattern(pattern), subject),
                 done |-> TRUE]
    /\ UNCHANGED <<pattern, subject, dataVars, callVars>>

InitPattern ==
    /\ store = <<>>
    /\ before = <<>>
    /\ nextId = 1
    /\ customID = FALSE
    /\ last = NoCall
    /\ pc = <<>>
    /\ held = <<>>
    /\ open = {}
    /\ base = BaseSession
    /\ pattern \in StringsOver(PatternAlphabet, MaxPatLen)
    /\ subject \in StringsOver(SubjectAlphabet, MaxStrLen)
    /\ regex = NotTranslated

NextPattern == Translate

SpecPattern == InitPattern /\ [][NextPattern]_vars

----------------------------------------------------------------------------
(* GetAll by identity: ids given alone or as a comma-separated list, in the *)
(* spellings bson.IsObjectIdHex accepts and in one it refuses.             *)

\* the same digits in upper case, which hex.DecodeString reads as well
Upper(s) == [i \in 1..Len(s) |->
               IF \E d \in 1..16 : HexDigits[d] = s[i]
               THEN UpperDigits[CHOOSE d \in 1..16 : HexDigits[d] = s[i]]
               ELSE s[i]]

\* the ids a caller may ask for: the stored ones and one that is not stored
IdPool == KnownOids \cup {NewObjectId(MaxInserts + 1)}

\* one element of an id list: well formed in lower case, in upper case, malformed
IdElems == {Hex(o) : o \in IdPool} \cup {Upper(Hex(SomeOid)), CallerId}

IdLists ==
    {<<a>> : a \in IdElems}
    \cup {<<a, b>> : a \in IdElems, b \in IdElems}
    \cup {<<a, b, c>> : a \in IdElems, b \in IdElems, c \in IdElems}

RECURSIVE Join(_)
Join(l) == IF Len(l) = 1 THEN l[1] ELSE l[1] \o <<",">> \o Join(Tail(l))

IdFilters == {[id |-> Str(Join(l))] : l \in IdLists}

GetAllById ==
    /\ last.op = "none"
    /\ \E f \in IdFilters, h \in Hints :
        LET r == GetAllRes(store, f, h, NoPage)
        IN  /\ Called([op |-> "GetAll", filter |-> f, out |-> r.out, object |-> <<>>,
                       hint |-> h, page |-> NoPage, err |-> r.err, res |-> r.res])
            /\ UNCHANGED <<store, nextId>>

InitIdentity ==
    /\ store = <<>>
    /\ before = <<>>
    /\ nextId = 1
    /\ customID = FALSE
    /\ last = NoCall
    /\ pc = <<>>
    /\ held = <<>>
    /\ open = {}
    /\ base = BaseSession
    /\ pattern = <<>>
    /\ subject = <<>>
    /\ regex = NotTranslated

NextIdentity ==
    \/ SaveInsert
    \/ GetAllById
    \/ Return

SpecIdentity == InitIdentity /\ [][NextIdentity]_vars

----------------------------------------------------------------------------
(* mongodb.go: MongoDBRepoBuilder and PrepareDB.  The backend's answer to   *)
(* each EnsureIndex request is an input of the construction.               *)

IndexOptionsConflict == 85

\* what the backend may answer to one EnsureIndex: done, a *mgo.QueryError
\* with code 85 or with another code, or an error of another type
Answers ==
    {[kind |-> "ok", code |-> 0],
     [kind |-> "QueryError", code |-> IndexOptionsConflict],
     [kind |-> "QueryError", code |-> IndexOptionsConflict + 1],
     [kind |-> "transport", code |-> 0]}

\* the Index values a definition may declare
IndexDefs ==
    {[fields |-> <<"name">>, unique |-> TRUE],
     [fields |-> <<"tag">>, unique |-> FALSE],
     [fields |-> <<"name", "tag">>, unique |-> FALSE]}

\* repoDef.GetIndexes(): no index is declared twice
IndexLists ==
    {l \in UNION {[1..n -> IndexDefs] : n \in 0..MaxIndexes} :
        \A i \in 1..Len(l) : \A j \in 1..Len(l) : i # j => l[i] # l[j]}

\* repoDef.GetTTL(), in seconds
TTLValues == {-1, 0, 60}

TTLFields == {"", "createdAt"}

\* the RepositoryDefinition handed to the builder
Definitions ==
    [name : {"", "things"}, indexes : IndexLists,
     enableTTL : BOOLEAN, ttl : TTLValues, ttlField : TTLFields]

\* the Backend handed to the builder: what its context holds under
\* MONGO_CTX_KEY, and the database name of its configuration
Backends == [session : {"none", "other", "session"}, databaseName : {"", "db"}]

\* the mgo.Index PrepareDB builds for a declared index, and for the expiry
DeclaredIndex(elem) ==
    [key |-> elem.fields, unique |-> elem.unique, dropDups |-> TRUE,
     background |-> TRUE, sparse |-> TRUE, expireAfter |-> 0]

ExpiryIndex(field, ttl) ==
    [key |-> <<field>>, unique |-> FALSE, dropDups |-> FALSE,
     background |-> TRUE, sparse |-> TRUE, expireAfter |-> ttl]

\* the loop of PrepareDB over the declared indexes, from index i on
RECURSIVE indexLoop(_, _, _, _, _)
indexLoop(indexes, answers, i, asked, logged) ==
    IF i > Len(indexes) THEN [err |-> NoError, asked |-> asked, log |-> logged]
    ELSE LET a == answers[i]
             asked2 == Append(asked, DeclaredIndex(indexes[i]))
         IN  IF a.kind = "ok"
             THEN indexLoop(indexes, answers, i + 1, asked2, logged)
             ELSE IF a.kind = "QueryError"
             THEN indexLoop(indexes, answers, i + 1, asked2,
                            IF a.code = IndexOptionsConflict
                            THEN Append(logged, "WARN") ELSE logged)
             ELSE [err |-> a.kind, asked |-> asked2, log |-> Append(logged, "ERROR")]

\* PrepareDB: answers[i] is the answer to the i-th declared index, the one
\* after them the answer to the expiry index
PrepareDB(indexes, enableTTL, TTL, TTLField, answers) ==
    LET loop == indexLoop(indexes, answers, 1, <<>>, <<>>)
        a == answers[Len(indexes) + 1]
    IN  IF loop.err # NoError
        THEN [err |-> loop.err, collection |-> FALSE, asked |-> loop.asked, log |-> loop.log]
        ELSE IF ~enableTTL
        THEN [err |-> NoError, collection |-> TRUE, asked |-> loop.asked, log |-> loop.log]
        ELSE IF TTLField = ""
        THEN [err |-> "BackendError", collection |-> FALSE, asked |-> loop.asked, log |-> loop.log]
        ELSE IF TTL = 0
        THEN [err |-> "BackendError", collection |-> FALSE, asked |-> loop.asked, log |-> loop.log]
        ELSE [err |-> IF a.kind = "ok" THEN NoError ELSE a.kind,
              collection |-> a.kind = "ok",
              asked |-> Append(loop.asked, ExpiryIndex(TTLField, TTL)),
              log |-> loop.log]

\* MongoDBRepoBuilder: repo says whether a Repository is returned
MongoDBRepoBuilder(repoDef, backend, answers) ==
    LET p == PrepareDB(repoDef.indexes, repoDef.enableTTL, repoDef.ttl,
                       repoDef.ttlField, answers)
    IN  IF backend.session = "none"
        THEN [err |-> "BackendError", repo |-> FALSE, asked |-> <<>>, log |-> <<>>]
        ELSE IF backend.session # "session"
        THEN [err |-> "BackendError", repo |-> FALSE, asked |-> <<>>, log |-> <<>>]
        ELSE IF backend.databaseName = ""
        THEN [err |-> "BackendError", repo |-> FALSE, asked |-> <<>>, log |-> <<>>]
        ELSE IF repoDef.name = ""
        THEN [err |-> "BackendError", repo |-> FALSE, asked |-> <<>>, log |-> <<>>]
        ELSE [err |-> p.err, repo |-> p.err = NoError, asked |-> p.asked, log |-> p.log]

Build ==
    /\ last.op = "none"
    /\ \E d \in Definitions, b \in Backends :
        \E ans \in [1..(Len(d.indexes) + 1) -> Answers] :
            LET r == MongoDBRepoBuilder(d, b, ans)
            IN  /\ Called([op |-> "MongoDBRepoBuilder", repoDef |-> d, backend |-> b,
                           answers |-> ans, err |-> r.err, repo |-> r.repo,
                           asked |-> r.asked, log |-> r.log])
                /\ UNCHANGED <<store, nextId>>

InitBuild ==
    /\ store = <<>>
    /\ before = <<>>
    /\ nextId = 1
    /\ customID = FALSE
    /\ last = NoCall
    /\ pc = <<>>
    /\ held = <<>>
    /\ open = {}
    /\ base = BaseSession
    /\ pattern = <<>>
    /\ subject = <<>>
    /\ regex = NotTranslated

NextBuild ==
    \/ Build
    \/ Return

SpecBuild == InitBuild /\ [][NextBuild]_vars

----------------------------------------------------------------------------
(* What the claims speak about *)

\* the filter selects on plain values only: no list, no descriptor
ScalarFilter(f) ==
    \A k \in DOMAIN f :
        \/ f[k].t = "oid"
        \/ f[k].t = "str" /\ ~Contains(f[k].v, ",")

\* the filter is well formed: its ids are hex ids, its descriptors patterns
ValidFilter(f) ==
    /\ GetAllNormalize(f).err = NoError
    /\ toMongoFilter(GetAllNormalize(f).out).err = NoError

\* the records a filter selects by the documented translation (as GetAll)
Selected(docs, f) == Matching(docs, toMongoFilter(GetAllNormalize(f).out).q)

IsNotFoundErr(e) == e \in {"NotFound", "mgo.ErrNotFound"}

----------------------------------------------------------------------------
(* C1: for a filter that matches zero records, GetOne fails with the       *)
(* repository's NotFound kind and leaves the store unchanged, and GetAll   *)
(* returns an empty sequence and no error.  Stated for filters on plain    *)
(* values, which every operation selects by in the same way.               *)
C1_NoMatchIsNotFound ==
    (/\ last.op \in {"GetOne", "GetAll"}
     /\ ValidFilter(last.filter)
     /\ ScalarFilter(last.filter)
     /\ Selected(before, last.filter) = <<>>)
    => /\ last.op = "GetOne" => last.err = "NotFound" /\ store = before
       /\ last.op = "GetAll" => last.err = NoError /\ last.res = <<>>

\* the GetAll half of C1 alone, and GetOne leaving the store alone
C1_GetAllHalf ==
    (/\ last.op \in {"GetOne", "GetAll"}
     /\ ValidFilter(last.filter)
     /\ ScalarFilter(last.filter)
     /\ Selected(before, last.filter) = <<>>)
    => /\ last.op = "GetOne" => IsNotFoundErr(last.err) /\ store = before
       /\ last.op = "GetAll" => last.err = NoError /\ last.res = <<>>

----------------------------------------------------------------------------
----------------------------------------------------------------------------
(* C3: on a non-custom-ID collection with a unique index, a successful     *)
(* Save(obj, nil) adds exactly one record and returns an object whose id   *)
(* is the hex rendering of a newly generated key, different from the key   *)
(* of every record inserted before (a caller-supplied id is discarded); an *)
(* insert that collides on the unique index fails with AlreadyExists and   *)
(* leaves the stored records unchanged.                                    *)
Collides(docs, object) ==
    /\ Has(object, IndexField)
    /\ \E i \in 1..Len(docs) :
          Has(docs[i], IndexField) /\ docs[i][IndexField] = object[IndexField]

C3_InsertAddsOneWithFreshId ==
    (last.op = "SaveInsert" /\ ~customID)
    => /\ last.err \in {NoError, "AlreadyExists"}
       /\ Collides(before, last.object) => last.err = "AlreadyExists"
       /\ last.err = "AlreadyExists" => store = before
       /\ last.err = NoError =>
            /\ Len(store) = Len(before) + 1
            /\ SubSeq(store, 1, Len(before)) = before
            /\ LET new == store[Len(store)]
                   ret == last.res[1]
               IN  /\ Has(ret, "id")
                   /\ ret["id"] = Str(Hex(new["_id"].v))
                   /\ IsObjectIdHex(ret["id"].v)
                   /\ ~Has(new, "id")
                   /\ \A k \in DOMAIN last.object \ {"id", "_id"} :
                         new[k] = last.object[k]
                   /\ \A n \in 1..(nextId - 2) :
                         Hex(NewObjectId(n)) # ret["id"].v
                   /\ \A i \in 1..Len(before) :
                         Hex(before[i]["_id"].v) # ret["id"].v

C3_Witness ==
    /\ last.op = "SaveInsert"
    /\ ~customID
    /\ last.err = NoError
    /\ Len(before) >= 1
    /\ Has(last.object, "id")
    /\ last.res[1]["id"] # last.object["id"]

C3_CollisionReached ==
    /\ last.op = "SaveInsert"
    /\ ~customID
    /\ last.err = "AlreadyExists"

----------------------------------------------------------------------------
(* C4: Save with a filter never inserts a record and never changes a       *)
(* record's internal key.  For a filter the backend accepts (its id well   *)
(* formed, its values compared as they are): if it                         *)
(* matches no record Save fails with NotFound and the store is unchanged;  *)
(* if it matches, the payload's fields other than the internal key are set *)
(* on exactly one matching record (the first), an internal key in the      *)
(* payload is ignored and the number of records stays the same; an update  *)
(* that would violate the unique index fails with AlreadyExists and leaves *)
(* the store unchanged.                                                    *)
FieldsSetOn(old, new, payload) ==
    /\ DOMAIN new = DOMAIN old \cup (DOMAIN payload \ {"_id"})
    /\ \A k \in DOMAIN payload \ {"_id"} : new[k] = payload[k]
    /\ \A k \in DOMAIN old \ (DOMAIN payload \ {"_id"}) : new[k] = old[k]

WouldViolateIndex(docs, i, payload) ==
    /\ Has(payload, IndexField)
    /\ \E j \in 1..Len(docs) :
          /\ j # i
          /\ Has(docs[j], IndexField)
          /\ docs[j][IndexField] = payload[IndexField]

\* the filter of the call in `last` passes normalisation and the backend
AcceptedFilter ==
    /\ Normalize(last.filter).err = NoError
    /\ rawQuery(Normalize(last.filter).out).err = NoError

\* positions of the records the filter of the call in `last` matched
MatchedBefore == Matching(before, rawQuery(Normalize(last.filter).out).q)

C4_DupReached ==
    /\ last.op = "SaveUpdate"
    /\ last.err = "AlreadyExists"

----------------------------------------------------------------------------
(* C5 as claimed: whenever the update step of Save(object, filter)         *)
(* succeeds, Save returns without error and the returned record is the     *)
(* current stored state of the record that was just updated, for every     *)
(* filter and payload.                                                     *)

\* the update step of the call in `last` was applied
UpdateApplied == last.op = "SaveUpdate" /\ last.err \in {NoError, "mgo.ErrNotFound"}

\* position of the record the update step of the call in `last` changed
UpdatedAt == Matching(before, rawQuery(Normalize(last.filter).out).q)[1]

\* ret shows the stored document doc in full, in its public rendering
ShowsRecord(ret, doc) ==
    /\ \A k \in DOMAIN doc \ {"id", "_id"} : Has(ret, k) /\ ret[k] = doc[k]
    /\ \A k \in DOMAIN ret \ {"id", "_id"} : Has(doc, k)
    /\ Has(ret, "_id") /\ ret["_id"] = Str(Hex(doc["_id"].v))
    /\ ~customID => Has(ret, "id") /\ ret["id"] = Str(Hex(doc["_id"].v))
    /\ customID => (Has(ret, "id") <=> Has(doc, "id"))
    /\ (customID /\ Has(doc, "id")) => ret["id"] = doc["id"]

C5_UpdateReturnsUpdatedRecord ==
    UpdateApplied
    => /\ last.err = NoError
       /\ ShowsRecord(last.res[1], store[UpdatedAt])

----------------------------------------------------------------------------
(* C7 as claimed: on a custom-ID collection Save(obj, nil) stores the      *)
(* record under the caller's own id value as its internal primary key: no  *)
(* key is generated.                                                       *)
CustomInsert ==
    /\ last.op = "SaveInsert"
    /\ customID
    /\ last.err = NoError
    /\ Has(last.object, "id")

----------------------------------------------------------------------------
(* C8: on a non-custom-ID collection every record GetAll returns carries   *)
(* the public identity GetOne gives the same stored record: id is the hex  *)
(* rendering of the internal key and the identity fields present (id, _id) *)
(* are the same in both results, for maps and for structs.                 *)
Returned(docs, f, page) ==
    LET m == Selected(docs, f)
    IN  Paged([i \in 1..Len(m) |-> docs[m[i]]], page)

IdentityFields(r) == DOMAIN r \cap {"id", "_id"}

C8_GetAllIdentityAsGetOne ==
    (last.op = "GetAll" /\ ~customID /\ last.err = NoError)
    => LET found == Returned(store, last.filter, last.page)
       IN  \A i \in 1..Len(last.res) :
              LET one == GetOneRes(store, [_id |-> found[i]["_id"]],
                                   NewDest(last.hint)).res[1]
              IN  /\ last.res[i]["id"] = Str(Hex(found[i]["_id"].v))
                  /\ one["id"] = last.res[i]["id"]
                  /\ IdentityFields(one) = IdentityFields(last.res[i])

----------------------------------------------------------------------------
(* C9: GetOne, DeleteOne and DeleteAll select records through the filter   *)
(* translation of GetAll: for a filter on non-identity fields (plain       *)
(* value, comma-separated list or pattern descriptor) DeleteAll removes    *)
(* exactly the records GetAll returns, and GetOne / DeleteOne succeed      *)
(* exactly when that set is not empty.                                     *)
NonIdentityFilter(f) ==
    /\ DOMAIN f \subseteq {"name", "tag"}
    /\ \A k \in DOMAIN f : f[k].t \in {"str", "pat"}

RECURSIVE DropAt(_, _, _)
DropAt(docs, idx, i) ==
    IF i > Len(docs) THEN <<>>
    ELSE (IF \E j \in 1..Len(idx) : idx[j] = i THEN <<>> ELSE <<docs[i]>>)
         \o DropAt(docs, idx, i + 1)

C9_SameSelectionAsGetAll ==
    NonIdentityFilter(last.filter)
    => LET sel == Selected(before, last.filter)
       IN  /\ last.op = "DeleteAll" =>
                /\ last.err = NoError
                /\ store = DropAt(before, sel, 1)
           /\ last.op \in {"GetOne", "DeleteOne"} =>
                (last.err = NoError <=> sel # <<>>)

----------------------------------------------------------------------------
(* C6: under every interleaving of concurrent calls each call works on its *)
(* own copy of the connection handle, every copy a call acquired (the      *)
(* second copy of the GetOne inside Save included) is released when the    *)
(* call returns, with success or with any error; no copy is open when no   *)
(* call is in progress, and the shared base session is never closed or     *)
(* changed.                                                                *)
HeldBy(p) == {held[p][i] : i \in 1..Len(held[p])}

C6_CopiesReleasedOnEveryExit ==
    /\ \A p \in Callers :
          /\ pc[p].at = "idle" => held[p] = <<>>
          /\ pc[p].at \in {"body", "return"} => Len(held[p]) = 1
          /\ pc[p].at = "getone" => Len(held[p]) = 2
          /\ BaseId \notin HeldBy(p)
          /\ Cardinality(HeldBy(p)) = Len(held[p])
          /\ \A q \in Callers : q # p => HeldBy(p) \cap HeldBy(q) = {}
    /\ open = UNION {HeldBy(p) : p \in Callers}
    /\ (\A p \in Callers : pc[p].at = "idle") => open = {}
    /\ base = BaseSession

C6_Witness ==
    /\ pc[1].at = "idle"
    /\ pc[1].err = "transport"
    /\ pc[2].at = "getone"
    /\ Cardinality(open) = 2

----------------------------------------------------------------------------
(* C10: the regular expression translated from the pattern p matches a     *)
(* string s exactly when s matches p in the wildcard language: % is zero   *)
(* or more arbitrary characters, %% is one literal %, any other character  *)
(* is itself.                                                              *)
RECURSIVE WildcardMatch(_, _)
WildcardMatch(p, s) ==
    IF p = <<>> THEN s = <<>>
    ELSE IF Head(p) = "%"
    THEN IF Len(p) >= 2 /\ p[2] = "%"
         THEN s # <<>> /\ Head(s) = "%" /\ WildcardMatch(SubSeq(p, 3, Len(p)), Tail(s))
         ELSE \E k \in 0..Len(s) : WildcardMatch(Tail(p), SubSeq(s, k + 1, Len(s)))
    ELSE s # <<>> /\ Head(s) = Head(p) /\ WildcardMatch(Tail(p), Tail(s))

C10_RegexMatchesWildcardLanguage ==
    regex.done => (regex.hit <=> WildcardMatch(pattern, subject))

----------------------------------------------------------------------------
(* C11 as claimed: on a non-custom-ID collection, for a GetAll filter whose *)
(* id is a valid hex id or a comma-separated list of valid hex ids, inbound *)
(* normalisation removes the id key and produces one internal key per       *)
(* element whose hex rendering is that element unchanged; a list becomes an *)
(* any-of match over exactly these keys; a malformed element yields         *)
(* InvalidInput.                                                            *)

\* the same digits in lower case
Lower(s) == [i \in 1..Len(s) |->
               IF \E d \in 1..16 : UpperDigits[d] = s[i]
               THEN HexDigits[CHOOSE d \in 1..16 : UpperDigits[d] = s[i]]
               ELSE s[i]]

SameString(s) == s

\* the GetAll in `last` filtered on id alone, on a non-custom-ID collection
ByIdentity ==
    /\ last.op = "GetAll"
    /\ ~customID
    /\ DOMAIN last.filter = {"id"}

AskedIds == Split(last.filter["id"].v)

AllWellFormed == \A i \in 1..Len(AskedIds) : IsObjectIdHex(AskedIds[i])

\* the internal keys the normalised filter holds
KeysOf(f) == IF f["_id"].t = "oid" THEN <<f["_id"].v>> ELSE f["_id"].v

\* positions of the stored records whose key is one of keys
RECURSIVE WithKeyIn(_, _, _)
WithKeyIn(docs, keys, i) ==
    IF i > Len(docs) THEN <<>>
    ELSE (IF \E k \in 1..Len(keys) : docs[i]["_id"].v = keys[k] THEN <<i>> ELSE <<>>)
         \o WithKeyIn(docs, keys, i + 1)

\* Rendered(h) is what the hex rendering of the key made from h must be
IdentityTranslation(Rendered(_)) ==
    ByIdentity =>
        IF AllWellFormed
        THEN /\ last.err = NoError
             /\ ~Has(last.out, "id")
             /\ Has(last.out, "_id")
             /\ LET keys == KeysOf(last.out)
                     idx == WithKeyIn(before, keys, 1)
                 IN  /\ Len(keys) = Len(AskedIds)
                     /\ \A i \in 1..Len(keys) : Hex(keys[i]) = Rendered(AskedIds[i])
                     /\ Len(last.res) = Len(idx)
                     /\ last.hint = "map" =>
                           \A i \in 1..Len(idx) :
                              last.res[i]["id"].v = Hex(before[idx[i]]["_id"].v)
        ELSE /\ last.err = "InvalidInput"
             /\ last.res = <<>>
             /\ store = before

C11_RoundTripUnchanged == IdentityTranslation(SameString)

(* C11 as amended: as claimed, except that the hex rendering of the key is  *)
(* the element with its hex digits in lower case: the element unchanged     *)
(* when it is written in lower case, as every id the repository renders is. *)
C11_RoundTripInLowerCase == IdentityTranslation(Lower)

C11_Witness ==
    /\ ByIdentity
    /\ AllWellFormed
    /\ Len(AskedIds) = 3
    /\ \E i \in 1..3 : AskedIds[i] # Lower(AskedIds[i])
    /\ Len(last.res) = 2
    /\ Len(before) = 2

C11_MalformedReached ==
    /\ ByIdentity
    /\ ~AllWellFormed
    /\ Len(AskedIds) = 3
    /\ IsObjectIdHex(AskedIds[1])

----------------------------------------------------------------------------
(* C12: during construction, an index the backend reports as already       *)
(* existing (options conflict) is tolerated and construction continues;    *)
(* every other index-creation failure makes construction fail, so that a   *)
(* Repository is returned only if every declared index was created or      *)
(* already existed.                                                        *)

\* the construction in `last` got as far as creating indexes
Provisioning ==
    /\ last.op = "MongoDBRepoBuilder"
    /\ last.backend.session = "session"
    /\ last.backend.databaseName # ""
    /\ last.repoDef.name # ""

\* the index was created or the backend says it exists already
CreatedOrExists(a) ==
    a.kind = "ok" \/ (a.kind = "QueryError" /\ a.code = IndexOptionsConflict)

DeclaredCount == Len(last.repoDef.indexes)

C12_OnlyExistingIndexTolerated ==
    Provisioning
    => /\ last.repo => \A i \in 1..DeclaredCount : CreatedOrExists(last.answers[i])
       /\ (\E i \in 1..DeclaredCount : ~CreatedOrExists(last.answers[i]))
             => last.err # NoError
       /\ ((\A i \in 1..DeclaredCount : CreatedOrExists(last.answers[i]))
            /\ ~last.repoDef.enableTTL)
             => last.repo /\ last.err = NoError

----------------------------------------------------------------------------
(* C13: with every declared index created, building from a definition with *)
(* TTL enabled fails with BackendError and returns no Repository whenever   *)
(* ttlField is empty or ttlSeconds is zero or negative; with TTL enabled, a *)
(* non-empty ttlField, ttlSeconds > 0 and the backend accepting, exactly    *)
(* one expiry index on ttlField with that duration is requested; with TTL   *)
(* disabled no expiry index is requested.                                   *)
DeclaredAllCreated == \A i \in 1..DeclaredCount : last.answers[i].kind = "ok"

\* positions of the expiry indexes among the requested ones
ExpiryAsked == {i \in 1..Len(last.asked) : last.asked[i].expireAfter # 0}

C13_TTLConfigChecked ==
    (Provisioning /\ DeclaredAllCreated)
    => LET d == last.repoDef
       IN  /\ (d.enableTTL /\ (d.ttlField = "" \/ d.ttl <= 0))
                 => last.err = "BackendError" /\ ~last.repo
           /\ (d.enableTTL /\ d.ttlField # "" /\ d.ttl > 0
                /\ last.answers[DeclaredCount + 1].kind = "ok")
                 => /\ last.repo
                    /\ Cardinality(ExpiryAsked) = 1
                    /\ \A i \in ExpiryAsked :
                          /\ last.asked[i].key = <<d.ttlField>>
                          /\ last.asked[i].expireAfter = d.ttl
           /\ ~d.enableTTL => ExpiryAsked = {}

====
